---- MODULE Spec2Model ----
(***************************************************************************)
(* Checklist backend (src/server.js; src/unnamed/part_000 is the earlier   *)
(* revision of the same server).  The Express handlers are modelled over   *)
(* the four tables they touch.  A handler that makes one database call is  *)
(* one action; POST /api/share-requests/:id/respond awaits up to           *)
(* 5 + N database calls, so it is one action per call: everything the      *)
(* handler does between two awaits is part of the action of the first.     *)
(*                                                                         *)
(* The database is the external collaborator: every call either succeeds   *)
(* or comes back with an error (the `ok` input of each action), ids are    *)
(* generated by the database, created_at is the database's clock at the    *)
(* insert, and a row that names a parent task is inserted strictly later   *)
(* than that parent (the caller learnt the parent's id from the response   *)
(* to the parent's insert).  Rows inserted by unrelated requests may carry *)
(* the same created_at.                                                    *)
(***************************************************************************)
EXTENDS Integers, Sequences, FiniteSets, TLC

VARIABLES profiles, checklists, tasks, share_requests, nextId, now, handlers, last

vars == <<profiles, checklists, tasks, share_requests, nextId, now, handlers, last>>

----
(* Bounds of the model *)

\* rows POST /api/tasks may create (clones come on top of these)
MaxApiTasks == 3
\* share requests POST /api/checklists/:id/share may create
MaxRequests == 1
\* the same, in the runs with overlapping respond calls
MaxRaceTasks == 1
\* the same, in the runs where tasks and checklists are also edited and deleted
MaxEditTasks == 2
\* profiles the profiles table may hold over a run
MaxProfiles == 3

----
(* Values *)

\* JavaScript null, and the SQL NULL of a column
NULL == 0
\* JavaScript undefined: what idMap[x] gives for a key that was never set
UNDEFINED == NULL - 1
\* a string field absent from the request body (JavaScript undefined)
MISSING == "undefined"
\* !v for a string field and for an id field of the request body
FalsyStr(v) == v \in {MISSING, ""}
FalsyId(v) == v = NULL

Passwords == {"pw1", "pw2"}
\* the calls of POST /api/share-requests/:id/respond that may be in progress at once
Handlers == {1, 2}
Actions == {"accept", "reject", "bogus"}

\* the result of .single() when no row comes back
NoRow == [id |-> NULL]

\* bcrypt.hash(password, salt): the hash carries its salt
BcryptHash(password, salt) == <<salt, password>>
\* bcrypt.compare(password, hash): hash again with the salt of `hash`
BcryptCompare(password, hash) == BcryptHash(password, hash[1]) = hash

\* a table row together with its primary key, as select('*') returns it
Row(table, id) == [f \in DOMAIN table[id] \cup {"id"} |->
                     IF f = "id" THEN id ELSE table[id][f]]

\* .select('id, name, avatar_url, created_at') on profiles
SafeColumns == {"id", "name", "avatar_url", "created_at"}
Project(row, cols) == [f \in cols |-> row[f]]

\* res.json(profile)
KeepHash(profile) == profile

\* const { password_hash, ...safeProfile } = profile
StripHash(profile) == [f \in DOMAIN profile \ {"password_hash"} |-> profile[f]]

\* a JSON value the supabase client sends as a column: undefined is dropped
\* from the body and the column takes its default, NULL
ToColumn(v) == IF v = UNDEFINED THEN NULL ELSE v

\* res.status(s).json({ error: msg })
ErrorBody(msg) == <<[error |-> msg]>>

Remove(table, id) == [x \in DOMAIN table \ {id} |-> table[x]]
Put(table, id, row) == [x \in DOMAIN table \cup {id} |-> IF x = id THEN row ELSE table[x]]

----
(* Start-up: the database as the server finds it. Two registered profiles, *)
(* each owning one checklist; no tasks and no share requests yet.          *)

IdleHandler ==
  [pc |-> "idle", id |-> NULL, action |-> "", request |-> NoRow,
   originalChecklist |-> NoRow, newChecklist |-> NoRow,
   tasks |-> <<>>, idMap |-> <<>>, log |-> <<>>,
   error |-> "", status |-> 0, body |-> <<>>]

Init ==
  /\ profiles = (1 :> [name |-> "alice", password_hash |-> BcryptHash("pw1", 1),
                       avatar_url |-> NULL, created_at |-> 0]) @@
                (2 :> [name |-> "bob", password_hash |-> BcryptHash("pw2", 2),
                       avatar_url |-> NULL, created_at |-> 0])
  /\ checklists = (1 :> [profile_id |-> 1, title |-> "Trip",
                         is_shared_copy |-> FALSE, created_at |-> 0]) @@
                  (2 :> [profile_id |-> 2, title |-> "Pack",
                         is_shared_copy |-> FALSE, created_at |-> 0])
  /\ tasks = <<>>
  /\ share_requests = <<>>
  /\ nextId = [profiles |-> 3, checklists |-> 3, tasks |-> 1, share_requests |-> 1]
  /\ now = 1
  /\ handlers = [h \in Handlers |-> IdleHandler]
  /\ last = [op |-> "none", req |-> <<>>, status |-> 0, body |-> <<>>]

\* the response of a profile or checklist handler (the responses of the
\* task and share-request handlers are not kept)
\* req: what the call was given (its body and the outcome of its database calls)
Respond(op, req, status, body) ==
  last' = [op |-> op, req |-> req, status |-> status, body |-> body]

\* the database's clock at an insert: not before the previous insert, and
\* strictly after the row `after` (NULL: no such row) was inserted
Stamp(t, after) ==
  /\ t \in {now, now + 1}
  /\ (after # NULL /\ after \in DOMAIN tasks) => tasks[after].created_at < t
  /\ now' = t

----
(* Tasks *)

\* POST /api/tasks
TaskCreate(checklist_id, parent_id, title, ok) ==
  /\ nextId.tasks <= MaxApiTasks
  /\ IF ok
     THEN \E t \in {now, now + 1} :
            LET id == nextId.tasks
                row == [checklist_id |-> checklist_id,
                        parent_id |-> IF parent_id # NULL THEN parent_id ELSE NULL,
                        title |-> title, is_completed |-> FALSE, created_at |-> t]
            IN /\ Stamp(t, parent_id)
               /\ tasks' = Put(tasks, id, row)
               /\ nextId' = [nextId EXCEPT !.tasks = id + 1]
     ELSE UNCHANGED <<tasks, nextId, now>>
  /\ UNCHANGED <<profiles, checklists, share_requests, handlers, last>>

\* PUT /api/tasks/:id: `body` holds the fields the request sets; title and
\* is_completed stand for the seven whitelisted columns (parent_id and
\* checklist_id are not among them)
TaskUpdates(body) == [f \in DOMAIN body \cap {"title", "is_completed"} |-> body[f]]

Patch(row, updates) == [f \in DOMAIN row |-> IF f \in DOMAIN updates THEN updates[f] ELSE row[f]]

TaskUpdate(id, body, ok) ==
  /\ IF ok /\ id \in DOMAIN tasks
     THEN tasks' = [tasks EXCEPT ![id] = Patch(@, TaskUpdates(body))]
     ELSE UNCHANGED tasks
  /\ UNCHANGED <<profiles, checklists, share_requests, nextId, now, handlers, last>>

\* DELETE /api/tasks/:id
TaskDelete(id, ok) ==
  /\ IF ok /\ id \in DOMAIN tasks
     THEN tasks' = Remove(tasks, id)
     ELSE UNCHANGED tasks
  /\ UNCHANGED <<profiles, checklists, share_requests, nextId, now, handlers, last>>

----
(* Checklists *)

\* DELETE /api/checklists/:id, src/server.js: the deleting profile's password
\* is verified first.  okProfile, okDelete: the outcome of the two calls.
ChecklistDeleteUncompared(profile_id, password, okProfile, okDelete) ==
  IF FalsyId(profile_id) \/ FalsyStr(password) THEN 400
  ELSE IF ~okProfile \/ profile_id \notin DOMAIN profiles THEN 404
  ELSE IF ~okDelete THEN 500
  ELSE 204

ChecklistDeleteStatus(profile_id, password, okProfile, okDelete) ==
  IF FalsyId(profile_id) \/ FalsyStr(password) THEN 400
  ELSE IF ~okProfile \/ profile_id \notin DOMAIN profiles THEN 404
  ELSE IF ~BcryptCompare(password, profiles[profile_id].password_hash) THEN 401
  ELSE IF ~okDelete THEN 500
  ELSE 204

ChecklistDelete(id, profile_id, password, okProfile, okDelete) ==
  LET status == ChecklistDeleteStatus(profile_id, password, okProfile, okDelete)
  IN /\ checklists' = IF status = 204 /\ id \in DOMAIN checklists
                       THEN Remove(checklists, id) ELSE checklists
     /\ Respond("checklist.delete", [id |-> id, profile_id |-> profile_id, password |-> password,
                 okProfile |-> okProfile, okDelete |-> okDelete], status,
                CASE status = 400 -> ErrorBody("Profile ID and password required for deletion")
                  [] status = 404 -> ErrorBody("Profile not found")
                  [] status = 401 -> ErrorBody("Invalid password")
                  [] status = 500 -> ErrorBody("db")
                  [] OTHER -> <<>>)
     /\ UNCHANGED <<profiles, tasks, share_requests, nextId, now, handlers>>

\* DELETE /api/checklists/:id, the earlier revision: no password is asked
ChecklistDeleteUnverified(id, ok) ==
  /\ IF ok
     THEN /\ checklists' = IF id \in DOMAIN checklists THEN Remove(checklists, id) ELSE checklists
          /\ Respond("checklist.delete0", [id |-> id, ok |-> ok], 204, <<>>)
     ELSE /\ UNCHANGED checklists
          /\ Respond("checklist.delete0", [id |-> id, ok |-> ok], 500, ErrorBody("db"))
  /\ UNCHANGED <<profiles, tasks, share_requests, nextId, now, handlers>>

----
(* Profiles *)

\* a field of the request body, undefined when the body does not set it
Field(body, f) == IF f \in DOMAIN body THEN body[f] ELSE MISSING

\* the unique constraint on profiles.name (error code 23505)
NameTaken(name, except) ==
  \E p \in DOMAIN profiles \ {except} : profiles[p].name = name

\* POST /api/profiles
ProfileCreate(body, salt, ok) ==
  /\ nextId.profiles <= MaxProfiles
  /\ LET name == Field(body, "name")
         password == Field(body, "password")
         id == nextId.profiles
         row == [name |-> name, password_hash |-> BcryptHash(password, salt),
                 avatar_url |-> IF "avatar_url" \in DOMAIN body THEN body.avatar_url ELSE NULL,
                 created_at |-> now]
     IN IF FalsyStr(name) \/ FalsyStr(password)
        THEN /\ UNCHANGED <<profiles, nextId>>
             /\ Respond("profile.create", [body |-> body, ok |-> ok], 400, ErrorBody("Name and password required"))
        ELSE IF NameTaken(name, NULL)
        THEN /\ UNCHANGED <<profiles, nextId>>
             /\ Respond("profile.create", [body |-> body, ok |-> ok], 409, ErrorBody("Profile name already exists"))
        ELSE IF ~ok
        THEN /\ UNCHANGED <<profiles, nextId>>
             /\ Respond("profile.create", [body |-> body, ok |-> ok], 500, ErrorBody("db"))
        ELSE /\ profiles' = Put(profiles, id, row)
             /\ nextId' = [nextId EXCEPT !.profiles = id + 1]
             /\ Respond("profile.create", [body |-> body, ok |-> ok], 201, <<Project(Row(profiles', id), SafeColumns)>>)
  /\ UNCHANGED <<checklists, tasks, share_requests, now, handlers>>

\* .order('created_at', { ascending: false }) over all profiles
ProfilesNewestFirst ==
  LET ids == DOMAIN profiles
      n == Cardinality(ids)
  IN {s \in [1..n -> ids] :
        /\ \A i, j \in 1..n : i # j => s[i] # s[j]
        /\ \A i, j \in 1..n : i < j => profiles[s[i]].created_at >= profiles[s[j]].created_at}

\* GET /api/profiles
ProfileList(ok) ==
  /\ IF ok
     THEN \E s \in ProfilesNewestFirst :
            Respond("profile.list", [ok |-> ok], 200,
                    [i \in DOMAIN s |-> Project(Row(profiles, s[i]), SafeColumns)])
     ELSE Respond("profile.list", [ok |-> ok], 500, ErrorBody("db"))
  /\ UNCHANGED <<profiles, checklists, tasks, share_requests, nextId, now, handlers>>

\* what POST /api/profiles/login sends for the profile it read
LoginBody(profile) == <<StripHash(profile)>>

\* POST /api/profiles/login
Login(profile_id, password, ok) ==
  /\ IF FalsyId(profile_id) \/ FalsyStr(password)
     THEN Respond("profile.login", [profile_id |-> profile_id, password |-> password, ok |-> ok], 400, ErrorBody("Profile ID and password required"))
     ELSE IF ~ok \/ profile_id \notin DOMAIN profiles
     THEN Respond("profile.login", [profile_id |-> profile_id, password |-> password, ok |-> ok], 404, ErrorBody("Profile not found"))
     ELSE IF ~BcryptCompare(password, profiles[profile_id].password_hash)
     THEN Respond("profile.login", [profile_id |-> profile_id, password |-> password, ok |-> ok], 401, ErrorBody("Invalid password"))
     ELSE Respond("profile.login", [profile_id |-> profile_id, password |-> password, ok |-> ok], 200, LoginBody(Row(profiles, profile_id)))
  /\ UNCHANGED <<profiles, checklists, tasks, share_requests, nextId, now, handlers>>

\* the `updates` object PUT /api/profiles/:id builds from the body
ProfileUpdates(body, salt) ==
  LET set == {f \in {"name", "password"} : ~FalsyStr(Field(body, f))}
             \cup ({"avatar_url"} \cap DOMAIN body)
      cols == {IF f = "password" THEN "password_hash" ELSE f : f \in set}
  IN [c \in cols |-> IF c = "password_hash" THEN BcryptHash(body.password, salt)
                     ELSE body[c]]

\* PUT /api/profiles/:id
ProfileUpdate(id, body, salt, ok) ==
  /\ LET updates == ProfileUpdates(body, salt)
     IN IF /\ ok /\ id \in DOMAIN profiles
           /\ ("name" \in DOMAIN updates => ~NameTaken(updates.name, id))
        THEN /\ profiles' = [profiles EXCEPT ![id] = Patch(@, updates)]
             /\ Respond("profile.update", [id |-> id, body |-> body, ok |-> ok], 200, <<Project(Row(profiles', id), SafeColumns)>>)
        ELSE /\ UNCHANGED profiles
             /\ Respond("profile.update", [id |-> id, body |-> body, ok |-> ok], 500, ErrorBody("db"))
  /\ UNCHANGED <<checklists, tasks, share_requests, nextId, now, handlers>>

\* DELETE /api/profiles/:id
ProfileDelete(id, ok) ==
  /\ IF ok
     THEN /\ profiles' = IF id \in DOMAIN profiles THEN Remove(profiles, id) ELSE profiles
          /\ Respond("profile.delete", [id |-> id, ok |-> ok], 204, <<>>)
     ELSE /\ UNCHANGED profiles
          /\ Respond("profile.delete", [id |-> id, ok |-> ok], 500, ErrorBody("db"))
  /\ UNCHANGED <<checklists, tasks, share_requests, nextId, now, handlers>>

----
(* Share requests *)

\* .from('profiles').select('id').eq('name', receiver_name).single()
ProfileByName(name) == {p \in DOMAIN profiles : profiles[p].name = name}

\* POST /api/checklists/:id/share   (status takes the column's default)
ShareCreate(checklist_id, sender_id, receiver_name, okReceiver, ok) ==
  /\ nextId.share_requests <= MaxRequests
  /\ IF /\ ~(FalsyId(sender_id) \/ FalsyStr(receiver_name))
        /\ okReceiver /\ Cardinality(ProfileByName(receiver_name)) = 1
        /\ ok
     THEN LET id == nextId.share_requests
              receiver == CHOOSE p \in ProfileByName(receiver_name) : TRUE
          IN /\ share_requests' = Put(share_requests, id,
                                      [checklist_id |-> checklist_id, sender_id |-> sender_id,
                                       receiver_id |-> receiver, status |-> "pending",
                                       created_at |-> now])
             /\ nextId' = [nextId EXCEPT !.share_requests = id + 1]
     ELSE UNCHANGED <<share_requests, nextId>>
  /\ UNCHANGED <<profiles, checklists, tasks, now, handlers, last>>

----
(* POST /api/share-requests/:id/respond, one action per awaited call.       *)
(* handlers[h] holds the locals of call h: request, originalChecklist,      *)
(* newChecklist, tasks, idMap, the response (status, body), and log: what   *)
(* the loop sent for each source task so far and whether the insert         *)
(* succeeded.                                                               *)

Finish(loc, status, msg) ==
  [loc EXCEPT !.pc = "done", !.status = status, !.body = msg]

\* a database call came back with an error: `error` names the variable the
\* handler binds it to
Fail(loc, error, status) ==
  [loc EXCEPT !.pc = "done", !.error = error, !.status = status, !.body = "db"]

Step(h, loc) == handlers' = [handlers EXCEPT ![h] = loc]

\* ['accept', 'reject'].includes(action)
ValidAction(action) == action \in {"accept", "reject"}

\* the status check left out
IsPendingUnchecked(request) == TRUE

\* request.status !== 'pending' is the negation of this
IsPending(request) == request.status = "pending"

\* action === 'accept' ? 'accepted' : 'rejected'
NewStatus(action) == IF action = "accept" THEN "accepted" ELSE "rejected"

\* a call arrives (slot h is free: it never ran, or its last call returned):
\* the select of the request by id, and the checks on what came back
RespondSelect(h, id, action, ok) ==
  /\ handlers[h].pc \in {"idle", "done"}
  /\ LET loc == [IdleHandler EXCEPT !.id = id, !.action = action]
         request == IF ok /\ id \in DOMAIN share_requests
                    THEN Row(share_requests, id) ELSE NoRow
     IN IF ~ValidAction(action)
        THEN Step(h, Finish(loc, 400, "Invalid action"))
        ELSE IF request.id = NULL
        THEN Step(h, Finish([loc EXCEPT !.error = "reqError"], 404, "Request not found"))
        ELSE IF ~IsPending(request)
        THEN Step(h, Finish([loc EXCEPT !.request = request], 400, "Request already processed"))
        ELSE Step(h, [loc EXCEPT !.request = request, !.pc = "update"])
  /\ UNCHANGED <<profiles, checklists, tasks, share_requests, nextId, now, last>>

\* the update of the request's status
RespondUpdate(h, ok) ==
  /\ handlers[h].pc = "update"
  /\ LET loc == handlers[h]
     IN IF ~ok
        THEN /\ Step(h, Fail(loc, "updateError", 500))
             /\ UNCHANGED share_requests
        ELSE /\ share_requests' =
                  IF loc.id \in DOMAIN share_requests
                  THEN [share_requests EXCEPT ![loc.id].status = NewStatus(loc.action)]
                  ELSE share_requests
             /\ IF loc.action = "accept"
                THEN Step(h, [loc EXCEPT !.pc = "fetchChecklist"])
                ELSE Step(h, Finish(loc, 200, "Rejected share request"))
  /\ UNCHANGED <<profiles, checklists, tasks, nextId, now, last>>

\* the select of the source checklist
RespondFetchChecklist(h, ok) ==
  /\ handlers[h].pc = "fetchChecklist"
  /\ LET loc == handlers[h]
         cl == loc.request.checklist_id
     IN IF ~ok \/ cl \notin DOMAIN checklists
        THEN Step(h, Fail(loc, "clError", 500))
        ELSE Step(h, [loc EXCEPT !.originalChecklist = Row(checklists, cl),
                                 !.pc = "insertChecklist"])
  /\ UNCHANGED <<profiles, checklists, tasks, share_requests, nextId, now, last>>

\* the insert of the copy's checklist row
RespondInsertChecklist(h, ok) ==
  /\ handlers[h].pc = "insertChecklist"
  /\ LET loc == handlers[h]
         id == nextId.checklists
     IN IF ~ok
        THEN /\ Step(h, Fail(loc, "newClError", 500))
             /\ UNCHANGED <<checklists, nextId>>
        ELSE /\ checklists' = Put(checklists, id,
                                  [profile_id |-> loc.request.receiver_id,
                                   title |-> loc.originalChecklist.title,
                                   is_shared_copy |-> TRUE, created_at |-> now])
             /\ nextId' = [nextId EXCEPT !.checklists = id + 1]
             /\ Step(h, [loc EXCEPT !.newChecklist = Row(checklists', id),
                                    !.pc = "fetchTasks"])
  /\ UNCHANGED <<profiles, tasks, share_requests, now, last>>

\* ascending: false in place of ascending: true
CreatedDescending(s) ==
  \A i, j \in DOMAIN s : i < j => tasks[s[i]].created_at >= tasks[s[j]].created_at

\* .order('created_at', { ascending: true }): s is in this order
CreatedAscending(s) ==
  \A i, j \in DOMAIN s : i < j => tasks[s[i]].created_at <= tasks[s[j]].created_at

\* every answer the database may give to the select of the checklist's
\* tasks: rows with equal created_at come in an order the database chooses
TasksOf(checklist_id) == {t \in DOMAIN tasks : tasks[t].checklist_id = checklist_id}

OrderedTasks(checklist_id) ==
  LET ids == TasksOf(checklist_id)
      n == Cardinality(ids)
  IN {s \in [1..n -> ids] :
        /\ \A i, j \in 1..n : i # j => s[i] # s[j]
        /\ CreatedAscending(s)}

\* the select of the source tasks; with none, the loop body never runs
RespondFetchTasks(h, ok) ==
  /\ handlers[h].pc = "fetchTasks"
  /\ LET loc == handlers[h]
     IN IF ~ok
        THEN Step(h, Fail(loc, "tasksError", 500))
        ELSE \E s \in OrderedTasks(loc.request.checklist_id) :
               LET rows == [i \in DOMAIN s |-> Row(tasks, s[i])]
               IN IF Len(rows) = 0
                  THEN Step(h, Finish([loc EXCEPT !.tasks = rows], 200,
                                      "Accepted and cloned checklist"))
                  ELSE Step(h, [loc EXCEPT !.tasks = rows, !.pc = "insertTask"])
  /\ UNCHANGED <<profiles, checklists, tasks, share_requests, nextId, now, last>>

\* idMap[task.parent_id] || task.parent_id
LookupOrKey(idMap, key) == IF key \in DOMAIN idMap THEN idMap[key] ELSE key

\* idMap[task.parent_id]
Lookup(idMap, key) == IF key \in DOMAIN idMap THEN idMap[key] ELSE UNDEFINED

\* parent_id: task.parent_id, the reference copied as it is
CopyParent(idMap, parent_id) == parent_id

\* task.parent_id ? idMap[task.parent_id] : null
ResolveParent(idMap, parent_id) ==
  IF parent_id # NULL THEN Lookup(idMap, parent_id) ELSE NULL

\* if (!nTError && newTask) idMap[task.id] = newTask.id
Record(idMap, ok, task_id, new_id) == IF ok THEN Put(idMap, task_id, new_id) ELSE idMap

\* if (nTError) break
LoopBreaksOnError(i, n, ok) == i = n \/ ~ok

\* for (const task of tasks): the loop ends after the turn of the last task,
\* whatever the insert of that turn gave
LoopEnds(i, n, ok) == i = n

\* one turn of the loop: the insert of the copy of the next source task
RespondInsertTask(h, ok) ==
  /\ handlers[h].pc = "insertTask"
  /\ LET loc == handlers[h]
         i == Len(loc.log) + 1
         task == loc.tasks[i]
         parent_id == ToColumn(ResolveParent(loc.idMap, task.parent_id))
         id == nextId.tasks
         row == [checklist_id |-> loc.newChecklist.id, parent_id |-> parent_id,
                 title |-> task.title, is_completed |-> task.is_completed,
                 created_at |-> now']
         next == [loc EXCEPT
                    !.idMap = Record(@, ok, task.id, id),
                    !.log = Append(@, [task |-> task.id, parent_id |-> parent_id,
                                       id |-> IF ok THEN id ELSE NULL])]
     IN /\ IF ok
           THEN /\ Stamp(now + 1, parent_id)
                /\ tasks' = Put(tasks, id, row)
                /\ nextId' = [nextId EXCEPT !.tasks = id + 1]
           ELSE UNCHANGED <<tasks, nextId, now>>
        /\ IF LoopEnds(i, Len(loc.tasks), ok)
           THEN Step(h, Finish(next, 200, "Accepted and cloned checklist"))
           ELSE Step(h, next)
  /\ UNCHANGED <<profiles, checklists, share_requests, last>>

----
(* The share workflow: tasks, checklists, share requests and respond *)

\* the ids a respond call may name: those of the requests, and one that names none
RequestIds == DOMAIN share_requests \cup {nextId.share_requests}
TaskIds == DOMAIN tasks
TaskBodies == {[is_completed |-> TRUE]}

\* requests the task and share endpoints may receive
CreateNext ==
  \E c \in DOMAIN checklists, p \in {NULL} \cup DOMAIN tasks, ok \in BOOLEAN :
    TaskCreate(c, p, "Trip", ok)

ShareNext ==
  \E c \in DOMAIN checklists, n \in {"bob", "carol", ""}, okr, ok \in BOOLEAN :
    ShareCreate(c, 1, n, okr, ok)

ChangeNext ==
  \/ \E id \in TaskIds, body \in TaskBodies, ok \in BOOLEAN : TaskUpdate(id, body, ok)
  \/ \E id \in TaskIds, ok \in BOOLEAN : TaskDelete(id, ok)
  \/ \E id \in DOMAIN checklists, ok \in BOOLEAN : ChecklistDeleteUnverified(id, ok)

RespondNext(h) ==
  \/ \E id \in RequestIds, a \in Actions, ok \in BOOLEAN : RespondSelect(h, id, a, ok)
  \/ \E ok \in BOOLEAN : RespondUpdate(h, ok)
  \/ \E ok \in BOOLEAN : RespondFetchChecklist(h, ok)
  \/ \E ok \in BOOLEAN : RespondInsertChecklist(h, ok)
  \/ \E ok \in BOOLEAN : RespondFetchTasks(h, ok)
  \/ \E ok \in BOOLEAN : RespondInsertTask(h, ok)

\* one respond call at a time, while tasks are being created
Next == CreateNext \/ RespondNext(1)

\* start-up with alice's request to share checklist 1 with bob pending
InitPending ==
  /\ Init!1 /\ Init!2 /\ Init!3 /\ Init!6 /\ Init!7 /\ Init!8
  /\ share_requests = (1 :> [checklist_id |-> 1, sender_id |-> 1, receiver_id |-> 2,
                             status |-> "pending", created_at |-> 0])
  /\ nextId = [profiles |-> 3, checklists |-> 3, tasks |-> 1, share_requests |-> 2]

Spec == InitPending /\ [][Next]_vars

\* overlapping respond calls on a checklist of at most MaxRaceTasks tasks
RaceNext ==
  \/ nextId.tasks <= MaxRaceTasks /\ CreateNext
  \/ ShareNext
  \/ \E h \in Handlers : RespondNext(h)

SpecRace == Init /\ [][RaceNext]_vars

\* one respond call at a time, while every task and checklist endpoint is in use
EditNext ==
  \/ nextId.tasks <= MaxEditTasks /\ CreateNext
  \/ ChangeNext
  \/ RespondNext(1)

SpecEdit == InitPending /\ [][EditNext]_vars

----
(* Profiles and the ownership of checklists *)

ProfileIds == 1..MaxProfiles
CreateBodies ==
  {[name |-> "carol", password |-> "pw1"], [name |-> "bob", password |-> "pw1"],
   [name |-> "carol"]}
UpdateBodies == {[password |-> "pw2", avatar_url |-> "a.png"], [name |-> "bob"]}

AccountsNext ==
  \/ \E body \in CreateBodies, ok \in BOOLEAN : ProfileCreate(body, 1, ok)
  \/ \E ok \in BOOLEAN : ProfileList(ok)
  \/ \E id \in {NULL} \cup ProfileIds, pw \in Passwords \cup {MISSING}, ok \in BOOLEAN :
       Login(id, pw, ok)
  \/ \E id \in ProfileIds, body \in UpdateBodies, ok \in BOOLEAN :
       ProfileUpdate(id, body, 2, ok)
  \/ \E id \in ProfileIds, ok \in BOOLEAN : ProfileDelete(id, ok)
  \/ \E c \in DOMAIN checklists, id \in {NULL} \cup ProfileIds,
        pw \in Passwords \cup {MISSING}, okp, ok \in BOOLEAN :
       ChecklistDelete(c, id, pw, okp, ok)

SpecAccounts == Init /\ [][AccountsNext]_vars

----
(* Properties of POST /api/share-requests/:id/respond *)

\* the position of source task `id` in the rows call h fetched (0: not among them)
At(h, id) ==
  LET hit == {i \in DOMAIN handlers[h].tasks : handlers[h].tasks[i].id = id}
  IN IF hit = {} THEN 0 ELSE CHOOSE i \in hit : TRUE

\* call h accepted, fetched the source tasks and is in or past the loop
Cloning(h) ==
  /\ handlers[h].pc \in {"insertTask", "done"}
  /\ handlers[h].error = ""
  /\ handlers[h].newChecklist.id # NULL

\* call h has returned from the loop and every insert of the loop succeeded
ClonedAll(h) ==
  /\ Cloning(h) /\ handlers[h].pc = "done"
  /\ \A i \in DOMAIN handlers[h].log : handlers[h].log[i].id # NULL

\* C1: over any interleaving of respond calls on one request the accept
\* transition fires at most once: at most one call ever creates a shared-copy
\* checklist from the request, and a call that reads the request after it was
\* processed returns 400 'Request already processed' without cloning.
C1_AcceptFiresAtMostOnce ==
  \A r \in DOMAIN share_requests :
    /\ Cardinality({h \in Handlers : handlers[h].id = r
                                      /\ handlers[h].newChecklist.id # NULL}) <= 1
    /\ \A h \in Handlers :
         (handlers[h].request.id = r /\ handlers[h].request.status # "pending")
           => /\ handlers[h].status = 400
              /\ handlers[h].newChecklist.id = NULL

\* C2: a request's status is pending, accepted or rejected, and once it is
\* accepted or rejected no step changes it again.
C2_StatusChangesOnce ==
  /\ [](\A r \in DOMAIN share_requests :
          share_requests[r].status \in {"pending", "accepted", "rejected"})
  /\ [][\A r \in DOMAIN share_requests :
          share_requests[r].status # "pending"
            => share_requests'[r].status = share_requests[r].status]_vars

\* C3: when every insert of the loop succeeded, the N source tasks have N
\* distinct copies, all rows of the new checklist; the copy of a task whose
\* parent is a source task has the copy of that parent as its parent (not the
\* original), and the copy of a task without parent has none.
C3_CloneKeepsParents ==
  \A h \in Handlers :
    ClonedAll(h) =>
      LET loc == handlers[h]
          n == Len(loc.tasks)
          src == {loc.tasks[i].id : i \in 1..n}
      IN /\ Len(loc.log) = n
         /\ DOMAIN loc.idMap = src
         /\ Cardinality({loc.idMap[x] : x \in src}) = n
         /\ \A k \in 1..n :
              LET task == loc.tasks[k]
                  copy == loc.idMap[task.id]
              IN /\ copy \in DOMAIN tasks
                 /\ copy \notin src
                 /\ tasks[copy].checklist_id = loc.newChecklist.id
                 /\ task.parent_id = NULL => tasks[copy].parent_id = NULL
                 /\ task.parent_id \in src =>
                      /\ tasks[copy].parent_id = loc.idMap[task.parent_id]
                      /\ tasks[copy].parent_id # task.parent_id

C3_Witness ==
  \E h \in Handlers :
    /\ ClonedAll(h)
    /\ Len(handlers[h].tasks) = 3
    /\ \E k \in 1..3 : At(h, handlers[h].tasks[k].parent_id) # 0
    /\ \E k \in 1..3 : handlers[h].tasks[k].parent_id = NULL

\* C4: when the insert of the copy of source task j fails, j gets no entry in
\* idMap, and every source task whose parent is j is still sent to the
\* database, with parent_id null; the call still answers 200.
C4_FailedParentGivesNull ==
  \A h \in Handlers :
    Cloning(h) =>
      LET loc == handlers[h]
      IN /\ \A i \in DOMAIN loc.log :
              /\ loc.log[i].task = loc.tasks[i].id
              /\ loc.log[i].id = NULL => loc.tasks[i].id \notin DOMAIN loc.idMap
         /\ \A k \in DOMAIN loc.log :
              LET j == At(h, loc.tasks[k].parent_id)
              IN (j # 0 /\ j < k /\ loc.log[j].id = NULL) =>
                   /\ loc.log[k].parent_id = NULL
                   /\ loc.log[k].id \in DOMAIN tasks
                        => tasks[loc.log[k].id].parent_id = NULL
         /\ loc.pc = "done" => Len(loc.log) = Len(loc.tasks) /\ loc.status = 200

C4_Witness ==
  \E h \in Handlers :
    /\ Cloning(h) /\ handlers[h].pc = "done" /\ handlers[h].status = 200
    /\ \E k \in DOMAIN handlers[h].log :
         LET j == At(h, handlers[h].tasks[k].parent_id)
         IN /\ j # 0 /\ handlers[h].log[j].id = NULL
            /\ handlers[h].log[k].id \in DOMAIN tasks
            /\ tasks[handlers[h].log[k].id].parent_id = NULL

\* the step is the first step of a call in slot h
Arrives(h) == handlers[h].pc \in {"idle", "done"} /\ handlers'[h] # handlers[h]

\* C5: a respond call whose request does not exist answers 404, one that reads
\* the request with a status other than pending answers 400, and such a call
\* writes nothing: only a call that read its request pending goes on to the
\* database calls that write.
C5_ClientErrorWritesNothing ==
  /\ [](\A h \in Handlers :
          handlers[h].pc \notin {"idle", "done"}
            => /\ handlers[h].request.id = handlers[h].id
               /\ handlers[h].request.status = "pending")
  /\ [][\A h \in Handlers :
          Arrives(h) =>
            LET call == handlers'[h]
            IN /\ (ValidAction(call.action) /\ call.id \notin DOMAIN share_requests)
                    => call.pc = "done" /\ call.status = 404
               /\ (call.request.id # NULL /\ call.request.status # "pending")
                    => call.pc = "done" /\ call.status = 400
               /\ call.status \in {400, 404}
                    => /\ call.pc = "done"
                       /\ UNCHANGED <<share_requests, checklists, tasks>>]_vars

C5_Witness ==
  \E h \in Handlers :
    /\ handlers[h].pc = "done" /\ handlers[h].status = 400
    /\ handlers[h].request.id # NULL
    /\ handlers[h].request.status = "accepted"

\* C6: every task with a parent_id has its parent among the rows of the tasks
\* table, in the same checklist as the task.
C6_ParentInSameChecklist ==
  \A t \in DOMAIN tasks :
    tasks[t].parent_id # NULL =>
      /\ tasks[t].parent_id \in DOMAIN tasks
      /\ tasks[tasks[t].parent_id].checklist_id = tasks[t].checklist_id

\* C7: a failed fetch of the source checklist or of the source tasks ends the
\* call with 500; a failed insert of a task's copy does not end the loop: the
\* source tasks are sent in the order fetched, all of them, and the call
\* answers 200.
C7_OnlyFetchFailuresAreFatal ==
  \A h \in Handlers :
    LET loc == handlers[h]
    IN /\ loc.error \in {"clError", "tasksError"} => loc.pc = "done" /\ loc.status = 500
       /\ (loc.pc = "fetchChecklist" \/ loc.error = "clError") => loc.originalChecklist.id = NULL
       /\ (loc.pc = "fetchTasks" \/ loc.error = "tasksError") => loc.tasks = <<>>
       /\ Cloning(h) =>
            /\ Len(loc.log) <= Len(loc.tasks)
            /\ \A i \in DOMAIN loc.log : loc.log[i].task = loc.tasks[i].id
            /\ loc.pc = "insertTask" => Len(loc.log) < Len(loc.tasks)
            /\ loc.pc = "done" => Len(loc.log) = Len(loc.tasks) /\ loc.status = 200

C7_Witness ==
  \E h \in Handlers :
    /\ Cloning(h) /\ handlers[h].pc = "done" /\ handlers[h].status = 200
    /\ Len(handlers[h].log) = 3
    /\ handlers[h].log[1].id = NULL
    /\ handlers[h].log[3].id # NULL

\* C10 as stated: the rows are processed by creation time with ties broken by
\* insertion sequence (the ids, which the database hands out in sequence), and
\* a task with a parent is processed after its parent.
C10_TiesByInsertion ==
  \A h \in Handlers :
    LET rows == handlers[h].tasks
    IN /\ \A i, j \in DOMAIN rows :
            i < j => \/ rows[i].created_at < rows[j].created_at
                     \/ /\ rows[i].created_at = rows[j].created_at
                        /\ rows[i].id < rows[j].id
       /\ \A k \in DOMAIN rows :
            At(h, rows[k].parent_id) # 0 => At(h, rows[k].parent_id) < k

\* C10 as amended: the rows are processed in ascending created_at, rows with
\* equal created_at in any order; a task with a parent among them is processed
\* after that parent, and is sent with the parent's new id whenever the
\* parent's insert succeeded.
C10_ParentsFirst ==
  \A h \in Handlers :
    LET loc == handlers[h]
        rows == loc.tasks
    IN /\ \A i, j \in DOMAIN rows : i < j => rows[i].created_at <= rows[j].created_at
       /\ \A k \in DOMAIN rows :
            LET j == At(h, rows[k].parent_id)
            IN j # 0 =>
                 /\ j < k
                 /\ (k \in DOMAIN loc.log /\ loc.log[j].id # NULL)
                      => /\ rows[j].id \in DOMAIN loc.idMap
                         /\ loc.log[k].parent_id = loc.idMap[rows[j].id]
                         /\ loc.log[k].parent_id = loc.log[j].id

C10_Witness ==
  \E h \in Handlers :
    LET loc == handlers[h]
    IN /\ Len(loc.log) = 3
       /\ loc.tasks[1].created_at = loc.tasks[2].created_at
       /\ loc.tasks[1].id > loc.tasks[2].id
       /\ At(h, loc.tasks[3].parent_id) = 1
       /\ loc.log[3].parent_id = loc.log[1].id
       /\ loc.log[1].id # NULL

\* call h was an accept that read the request as pending, went on past the
\* update of its status, and has returned
ReturnedFromAccept(h) ==
  /\ handlers[h].pc = "done"
  /\ handlers[h].action = "accept"
  /\ handlers[h].request.id # NULL
  /\ handlers[h].request.status = "pending"
  /\ handlers[h].error # "updateError"

\* C11: whenever an accept call has returned and its request's status is
\* accepted, the checklists table holds the shared copy that call created: a row
\* with is_shared_copy = true, owned by the request's receiver and titled like
\* the source checklist, whatever the outcome of the database calls that follow
\* the update of the status.
C11_AcceptedHasClone ==
  \A h \in Handlers :
    (/\ ReturnedFromAccept(h)
     /\ handlers[h].id \in DOMAIN share_requests
     /\ share_requests[handlers[h].id].status = "accepted")
      => LET loc == handlers[h]
             copy == loc.newChecklist.id
         IN /\ copy \in DOMAIN checklists
            /\ checklists[copy].is_shared_copy
            /\ checklists[copy].profile_id = loc.request.receiver_id
            /\ loc.request.checklist_id \in DOMAIN checklists
                 => checklists[copy].title = checklists[loc.request.checklist_id].title

----
(* Properties of the profile endpoints and of DELETE /api/checklists/:id *)

\* the step is a call of DELETE /api/checklists/:id with password
Deletes == last'.op = "checklist.delete" /\ (last' # last \/ checklists' # checklists)

\* C8: the checklist is deleted only once the password is verified against
\* the profile: without profile_id or password the call answers 400, with an
\* unknown profile 404, with a wrong password 401, and in these cases the
\* checklists table is as before.
C8_DeleteNeedsPassword ==
  [][Deletes =>
       LET r == last'.req
           given == ~(FalsyId(r.profile_id) \/ FalsyStr(r.password))
           known == r.profile_id \in DOMAIN profiles
           match == BcryptCompare(r.password, profiles[r.profile_id].password_hash)
       IN /\ ~given => last'.status = 400
          /\ (given /\ ~known) => last'.status = 404
          /\ (given /\ known /\ r.okProfile /\ ~match) => last'.status = 401
          /\ last'.status \in {400, 404, 401} => checklists' = checklists
          /\ checklists' # checklists
               => /\ given /\ known /\ match
                  /\ checklists' = Remove(checklists, r.id)]_vars

C8_Witness ==
  /\ last.op = "checklist.delete" /\ last.status = 401
  /\ last.req.id \in DOMAIN checklists
  /\ last.req.profile_id = checklists[last.req.id].profile_id

ProfileOps ==
  {"profile.create", "profile.list", "profile.login", "profile.update", "profile.delete"}

\* C9: a login with the id of an existing profile and a wrong password answers
\* 401, and no body a profile endpoint sends has a password_hash field.
C9_HashNeverSent ==
  /\ last.op \in ProfileOps =>
       \A i \in DOMAIN last.body : "password_hash" \notin DOMAIN last.body[i]
  /\ last.op = "profile.login" =>
       LET r == last.req
       IN (/\ ~(FalsyId(r.profile_id) \/ FalsyStr(r.password))
           /\ r.ok /\ r.profile_id \in DOMAIN profiles
           /\ ~BcryptCompare(r.password, profiles[r.profile_id].password_hash))
          => last.status = 401

C9_Witness ==
  /\ last.op = "profile.login" /\ last.status = 200
  /\ Len(last.body) = 1
  /\ DOMAIN last.body[1] = {"id", "name", "avatar_url", "created_at"}

====
